---- MODULE Spec2Model ----
(***************************************************************************)
(* Model of script.py (Syrve-Validator): the order aggregation of main /   *)
(* fetch_orders / get_deliveries, the summary loop of summarize and the    *)
(* phone pattern PHONE_PATTERN.                                            *)
(*                                                                         *)
(* Three specifications share the module:                                  *)
(*   Spec      - main: for every selected organization fetch_orders walks  *)
(*               the day windows and calls get_deliveries, then summarize. *)
(*   SpecSum   - summarize, one loop iteration per step.                   *)
(*   SpecPhone - PHONE_PATTERN.match applied to one string.                *)
(***************************************************************************)
EXTENDS Integers, Sequences, FiniteSets, TLC

VARIABLES
    \* ---- main / fetch_orders ----
    frm,        \* args.f parsed by strptime (a datetime)
    to,         \* args.t parsed by strptime (a datetime)
    sel,        \* the organizations returned by select_orgs
    oi,         \* position of main's `for o in sel` (1-based)
    pc,         \* "main_loop" | "fetch_loop" | "done" | "raised"
    end,        \* fetch_orders: end after the clamp to now
    cur,        \* fetch_orders: cur
    fetched,    \* fetch_orders: its local all_orders
    all_orders, \* main: all_orders
    nows,       \* history: the value datetime.now() gave each fetch_orders call
    calls,      \* history: every get_deliveries invocation, in order
    returns,    \* history: the list each fetch_orders call returned
    exc,        \* the exception that left the program, or "none"
    sumry,      \* the record summarize returned, or NoSummary
    \* ---- summarize, stepwise ----
    orders,     \* the argument of summarize
    si,         \* number of completed loop iterations
    spc,        \* "idle" | "loop" | "returned" | "raised"
    phones, invalid, no_client, no_phone, zero,
    \* ---- PHONE_PATTERN ----
    ph,         \* the string handed to PHONE_PATTERN.match
    matched     \* "unknown" | "yes" | "no"

aggVars == <<frm, to, sel, oi, pc, end, cur, fetched, all_orders, nows, calls, returns>>
sumVars == <<orders, si, spc, phones, invalid, no_client, no_phone, zero>>
phoneVars == <<ph, matched>>
vars == <<aggVars, exc, sumry, sumVars, phoneVars>>

-----------------------------------------------------------------------------
(* Bounds of the model.                                                    *)
MaxDays == 1        \* sampled datetimes lie within MaxDays days of the epoch
MaxSel == 2         \* select_orgs returns at most MaxSel organizations
MaxOrders == 3      \* summarize is run on every sequence of up to MaxOrders orders

-----------------------------------------------------------------------------
(* Datetimes.  A datetime is a count of whole milliseconds since an epoch  *)
(* plus the microseconds within the millisecond, as datetime.microsecond   *)
(* splits into microsecond // 1000 and the rest.                           *)
MsPerDay == 86400000
UsPerMs == 1000

DT(m, u) == [ms |-> m, us |-> u]

Lt(a, b) == a.ms < b.ms \/ (a.ms = b.ms /\ a.us < b.us)

MinDT(a, b) == IF Lt(b, a) THEN b ELSE a

\* cur + timedelta(days=1)
PlusDay(a) == DT(a.ms + MsPerDay, a.us)

\* format_dt: "%Y-%m-%d %H:%M:%S." followed by microsecond // 1000 in three
\* digits.  The string is represented by the datetime it denotes: the
\* microseconds below the millisecond are dropped.
format_dt(dt) == DT(dt.ms, 0)

-----------------------------------------------------------------------------
(* JSON values as Python sees them.  A value is [t, s, n]: its type tag,   *)
(* its characters when it is a str, and its number when it is an int or    *)
(* its number of keys when it is a dict.  "absent" is a key that is not in *)
(* the enclosing dict.  A str is a sequence of one-character strings.      *)
Absent == [t |-> "absent", s |-> <<>>, n |-> 0]
Null == [t |-> "null", s |-> <<>>, n |-> 0]
StrV(chars) == [t |-> "str", s |-> chars, n |-> 0]
IntV(k) == [t |-> "int", s |-> <<>>, n |-> k]
DictV(keys) == [t |-> "dict", s |-> <<>>, n |-> keys]

\* The fields summarize reads from a dict.
Fields(c, p, sm) == [customer |-> c, phone |-> p, sum |-> sm]
NoFields == Fields(Absent, Absent, Absent)

\* The value under the key `order`: a value that, when it is a dict, has fields.
Wrapper(v, d) == [t |-> v.t, s |-> v.s, n |-> v.n, d |-> d]
NoWrapper == Wrapper(Absent, NoFields)

\* An element of the orders list: a dict with an `order` key and its own
\* fields, or (t # "dict") a value that is no dict at all.
Order(w, d) == [t |-> "dict", order |-> w, d |-> d]
NotADict(v) == [t |-> v.t, order |-> NoWrapper, d |-> NoFields]

\* Truthy with every dict taken as true, the empty one too.
TruthyAnyDict(v) ==
    CASE v.t = "absent" -> FALSE
      [] v.t = "null" -> FALSE
      [] v.t = "str" -> Len(v.s) > 0
      [] v.t = "int" -> v.n # 0
      [] v.t = "dict" -> TRUE

\* Python truth value: None, {}, "", 0 are false.
Truthy(v) ==
    CASE v.t = "absent" -> FALSE
      [] v.t = "null" -> FALSE
      [] v.t = "str" -> Len(v.s) > 0
      [] v.t = "int" -> v.n # 0
      [] v.t = "dict" -> v.n > 0

\* dict.get(key): None when the key is missing.
Get(d, key) == IF d[key].t = "absent" THEN Null ELSE d[key]

\* dict.get(key, 0)
GetOr0(d, key) == IF d[key].t = "absent" THEN IntV(0) ELSE d[key]

\* Unwrap taking the nested value whenever the key is there.
UnwrapIfPresent(o) ==
    IF o.order.t \notin {"absent", "null"} THEN [t |-> o.order.t, d |-> o.order.d]
    ELSE [t |-> "dict", d |-> o.d]

\* od = o.get('order') or o   (line 109).  The result is [t, d]: the type of
\* od and, when it is a dict, its fields.
Unwrap(o) ==
    IF Truthy(o.order) THEN [t |-> o.order.t, d |-> o.order.d]
    ELSE [t |-> "dict", d |-> o.d]

-----------------------------------------------------------------------------
(* PHONE_PATTERN (lines 16-20).                                            *)
AsciiDigits == {"0", "1", "2", "3", "4", "5", "6", "7", "8", "9"}

\* \d of a str pattern matches every Unicode decimal digit, not only 0-9;
\* "U+0663" stands for the one-character string ARABIC-INDIC DIGIT THREE.
IsDigit(c) == c \in AsciiDigits \cup {"U+0663"}

\* ord(c), which orders str values.
Ord(c) ==
    CASE c = "\n" -> 10
      [] c = " " -> 32
      [] c = "+" -> 43
      [] c = "0" -> 48 [] c = "1" -> 49 [] c = "2" -> 50 [] c = "3" -> 51
      [] c = "4" -> 52 [] c = "5" -> 53 [] c = "6" -> 54 [] c = "7" -> 55
      [] c = "8" -> 56 [] c = "9" -> 57
      [] c = "x" -> 120
      [] c = "U+0663" -> 1635

\* (39|50|63|66|67|68|73|91|92|93|95|96|97|98|99)
OperatorCodes ==
    { <<"3", "9">>, <<"5", "0">>, <<"6", "3">>, <<"6", "6">>, <<"6", "7">>,
      <<"6", "8">>, <<"7", "3">>, <<"9", "1">>, <<"9", "2">>, <<"9", "3">>,
      <<"9", "5">>, <<"9", "6">>, <<"9", "7">>, <<"9", "8">>, <<"9", "9">> }

\* 0000000|1111111|...|9999999 of the negative lookahead
RepeatedSuffixes == { [i \in 1..7 |-> c] : c \in AsciiDigits }

\* The literal lit stands in str at position i.
HasAt(str, i, lit) ==
    /\ i + Len(lit) - 1 <= Len(str)
    /\ SubSeq(str, i, i + Len(lit) - 1) = lit

\* `$` without re.MULTILINE: the end of the string, or just before a newline
\* that is the last character of the string.
AtDollar(str, i) ==
    \/ i = Len(str) + 1
    \/ (i = Len(str) /\ str[i] = "\n")

\* PHONE_PATTERN.match(str) is not None, for a str.
PHONE_PATTERN_match(str) ==
    /\ HasAt(str, 1, <<"+", "3", "8", "0">>)
    /\ \E code \in OperatorCodes : HasAt(str, 5, code)
    /\ ~ \E rep \in RepeatedSuffixes : HasAt(str, 7, rep)
    /\ Len(str) >= 13
    /\ \A i \in 7..13 : IsDigit(str[i])
    /\ AtDollar(str, 14)

-----------------------------------------------------------------------------
(* summarize (lines 105-134).                                              *)

\* a < b for str values: lexicographic by code point.
StrLess(a, b) ==
    \E k \in 1..(Len(a) + 1) :
        /\ k <= Len(b)
        /\ \A j \in 1..(k - 1) : a[j] = b[j]
        /\ (k = Len(a) + 1 \/ Ord(a[k]) < Ord(b[k]))

Range(q) == { q[i] : i \in 1..Len(q) }

RECURSIVE SortedOf(_)
\* the ascending list of the str values of the set S
SortedOf(S) ==
    IF S = {} THEN <<>>
    ELSE LET m == CHOOSE x \in S : \A y \in S \ {x} : StrLess(x.s, y.s)
         IN <<m>> \o SortedOf(S \ {m})

\* SortedSet without the set: duplicates stay, in the order met.
SortedSetKeepsAll(q) == q

\* sorted(set(invalid))   (line 129)
SortedSet(q) == SortedOf(Range(q))

\* Counter(phones)   (line 123)
Counter(q) == [p \in Range(q) |-> Cardinality({ i \in 1..Len(q) : q[i] = p })]

\* od.get('sum', 0) == 0   (line 120): None == 0 is False.
IsZero(v) == v.t = "int" /\ v.n = 0

\* The locals of summarize before the loop (lines 106-107).
Locals0 ==
    [phones |-> <<>>, invalid |-> <<>>, no_client |-> 0, no_phone |-> 0,
     zero |-> 0, exc |-> "none"]

\* LoopBody whose no-client branch lacks the `continue`: an order without a
\* customer goes on to the phone check.
LoopBodyFallsThrough(st, o) ==
    IF o.t # "dict" THEN [st EXCEPT !.exc = "AttributeError"]
    ELSE LET od == Unwrap(o)
             st1 == IF od.t = "dict" /\ ~Truthy(Get(od.d, "customer"))
                      THEN [st EXCEPT !.no_client = @ + 1] ELSE st
         IN
    IF od.t # "dict" THEN [st EXCEPT !.exc = "AttributeError"]
    ELSE LET phv == Get(od.d, "phone") IN
    IF ~Truthy(phv) THEN [st1 EXCEPT !.no_phone = @ + 1]
    ELSE IF phv.t # "str"
        THEN [st1 EXCEPT !.phones = Append(@, phv), !.exc = "TypeError"]
    ELSE [st1 EXCEPT
            !.phones = Append(@, phv),
            !.invalid = IF PHONE_PATTERN_match(phv.s) THEN @ ELSE Append(@, phv),
            !.zero = IF IsZero(GetOr0(od.d, "sum")) THEN @ + 1 ELSE @]

\* One iteration of `for o in orders` (lines 108-121) from the locals st.
\* exc names the exception the iteration raises, if any.
LoopBody(st, o) ==
    IF o.t # "dict" THEN [st EXCEPT !.exc = "AttributeError"]
    ELSE LET od == Unwrap(o) IN
    IF od.t # "dict" THEN [st EXCEPT !.exc = "AttributeError"]
    ELSE IF ~Truthy(Get(od.d, "customer"))
        THEN [st EXCEPT !.no_client = @ + 1]
    ELSE LET phv == Get(od.d, "phone") IN
    IF ~Truthy(phv) THEN [st EXCEPT !.no_phone = @ + 1]
    ELSE IF phv.t # "str"
        THEN [st EXCEPT !.phones = Append(@, phv), !.exc = "TypeError"]
    ELSE [st EXCEPT
            !.phones = Append(@, phv),
            !.invalid = IF PHONE_PATTERN_match(phv.s) THEN @ ELSE Append(@, phv),
            !.zero = IF IsZero(GetOr0(od.d, "sum")) THEN @ + 1 ELSE @]

\* Lines 123-134: the record summarize returns.
SummaryRecord(os, st) ==
    LET cnt == Counter(st.phones)
        dupKeys == { p \in DOMAIN cnt : cnt[p] > 1 }
    IN [total |-> Len(os),
        no_client |-> st.no_client,
        no_phone |-> st.no_phone,
        invalid |-> SortedSet(st.invalid),
        inv_count |-> Len(st.invalid),
        zero |-> st.zero,
        unique |-> Cardinality(DOMAIN cnt),
        dup |-> [p \in dupKeys |-> cnt[p]]]

NoSummary == [total |-> -1]

RECURSIVE RunLoop(_, _, _)
\* The locals after the loop ran over os[i..]; it stops at the first raise.
RunLoop(os, i, st) ==
    IF i > Len(os) \/ st.exc # "none" THEN st
    ELSE RunLoop(os, i + 1, LoopBody(st, os[i]))

\* summarize(os): [exc, value]
summarize(os) ==
    LET st == RunLoop(os, 1, Locals0)
    IN IF st.exc # "none" THEN [exc |-> st.exc, value |-> NoSummary]
       ELSE [exc |-> "none", value |-> SummaryRecord(os, st)]

-----------------------------------------------------------------------------
(* Inputs.                                                                 *)

\* Datetimes on the day boundaries, with and without a fraction below the
\* millisecond (strptime's %f and datetime.now() both carry microseconds).
TimeSamples == { DT(k * MsPerDay, u) : k \in 0..MaxDays, u \in {0, UsPerMs \div 2} }

\* The ids of the organizations get_organizations returned.
Orgs == {"org-a", "org-b"}

\* What select_orgs can return: a non-empty list of offered organizations
\* (an organization picked twice is in the list twice).
Selections == UNION { [1..n -> Orgs] : n \in 1..MaxSel }

Plus380 == <<"+", "3", "8", "0">>
Digits1234567 == <<"1", "2", "3", "4", "5", "6", "7">>
Digits1111111 == <<"1", "1", "1", "1", "1", "1", "1">>

PhoneGood == Plus380 \o <<"5", "0">> \o Digits1234567    \* +380501234567
PhoneRepeated == Plus380 \o <<"5", "0">> \o Digits1111111 \* +380501111111
PhoneNoPlus == <<"3", "8", "0", "5", "0">> \o Digits1234567 \* 380501234567

Customer == DictV(3)    \* a customer record with id, name, surname

\* The four orders of the summary example of the specification.
ExNullCustomer == Order(NoWrapper, Fields(Null, Absent, Absent))
ExEmptyCustomerNullPhone == Order(NoWrapper, Fields(DictV(0), Null, Absent))
ExEmptyCustomerSum0 == Order(NoWrapper, Fields(DictV(0), StrV(PhoneGood), IntV(0)))
ExEmptyCustomerSum10 == Order(NoWrapper, Fields(DictV(0), StrV(PhoneGood), IntV(10)))
ExampleOrders ==
    <<ExNullCustomer, ExEmptyCustomerNullPhone, ExEmptyCustomerSum0, ExEmptyCustomerSum10>>

\* A nested `order` dict with the fields d (and as many keys as d has).
Nested(d) ==
    Wrapper(DictV(Cardinality({ k \in DOMAIN d : d[k].t # "absent" })), d)

OrderSamples ==
    { ExNullCustomer, ExEmptyCustomerNullPhone, ExEmptyCustomerSum0, ExEmptyCustomerSum10,
      Order(NoWrapper, Fields(Customer, Absent, IntV(0))),
      Order(NoWrapper, Fields(Customer, StrV(PhoneGood), Absent)),
      Order(NoWrapper, Fields(Customer, StrV(PhoneGood), IntV(10))),
      Order(NoWrapper, Fields(Customer, StrV(PhoneNoPlus), IntV(10))),
      Order(NoWrapper, Fields(Customer, StrV(PhoneRepeated), IntV(0))),
      \* {"order": {customer, phone, sum}}
      Order(Nested(Fields(Customer, StrV(PhoneRepeated), IntV(10))), NoFields),
      \* {"order": {}, customer, phone, sum}
      Order(Nested(NoFields), Fields(Customer, StrV(PhoneGood), IntV(0))),
      \* {"order": None, customer, phone, sum}
      Order(Wrapper(Null, NoFields), Fields(Customer, StrV(PhoneNoPlus), IntV(0))),
      \* {"order": {"customer": None}, customer, phone}
      Order(Nested(Fields(Null, Absent, Absent)), Fields(Customer, StrV(PhoneGood), Absent)),
      \* {"customer": {...}, "phone": 123}
      Order(NoWrapper, Fields(Customer, IntV(123), Absent)),
      \* {"order": "x"}
      Order(Wrapper(StrV(<<"x">>), NoFields), NoFields),
      \* an element of the list that is a str
      NotADict(StrV(<<"x">>)) }

\* The same four orders with a customer record that has keys.
ExampleOrdersWithCustomer ==
    <<ExNullCustomer,
      Order(NoWrapper, Fields(Customer, Null, Absent)),
      Order(NoWrapper, Fields(Customer, StrV(PhoneGood), IntV(0))),
      Order(NoWrapper, Fields(Customer, StrV(PhoneGood), IntV(10)))>>

OrderSeqs == UNION { [1..n -> OrderSamples] : n \in 0..MaxOrders }

\* What the server can answer to one get_deliveries request: no answer at
\* all, an error status, or a JSON body whose ordersByOrganizations is data.
Reply(kind, data) == [kind |-> kind, data |-> data]
OrdA == Order(NoWrapper, Fields(Customer, StrV(PhoneGood), IntV(10)))
OrdB == ExNullCustomer
Replies ==
    { Reply("no_response", <<>>), Reply("error_status", <<>>),
      Reply("json", << <<OrdA>>, <<>>, <<OrdB>> >>) }

PhoneSamples ==
    { pre \o lead \o code \o suffix \o tail :
        pre \in { <<>>, <<" ">> },
        lead \in { Plus380, <<"3", "8", "0">>, <<"+", "3", "8", "1">> },
        code \in { <<"5", "0">>, <<"3", "9">>, <<"9", "9">>, <<"0", "0">>, <<"4", "0">> },
        suffix \in { Digits1234567, Digits1111111, [i \in 1..7 |-> "0"],
                     <<"1", "1", "1", "1", "1", "1", "2">>,
                     <<"1", "2", "3", "4", "5", "6">>,
                     Digits1234567 \o <<"8">>,
                     <<"1", "2", "3", "4", "5", "6", "x">>,
                     [i \in 1..7 |-> "U+0663"] },
        tail \in { <<>>, <<"\n">>, <<" ">>, <<"\n", "\n">> } }

-----------------------------------------------------------------------------
(* get_deliveries (lines 45-59): [exc, value].                             *)
RECURSIVE Flatten(_)
Flatten(batches) ==
    IF batches = <<>> THEN <<>> ELSE Head(batches) \o Flatten(Tail(batches))

get_deliveries(reply) ==
    IF reply.kind = "no_response"
        THEN [exc |-> "ConnectionError", value |-> <<>>]     \* requests.post raises
    ELSE IF reply.kind = "error_status"
        THEN [exc |-> "HTTPError", value |-> <<>>]           \* raise_for_status
    ELSE [exc |-> "none", value |-> Flatten(reply.data)]

\* `except requests.HTTPError`   (line 97)
Caught(e) == e = "HTTPError"

\* Clamp with the clamp to now left out.
ClampNever(e, now) == e

\* if end > now: end = now   (lines 87-88)
Clamp(e, now) == IF Lt(now, e) THEN now ELSE e

-----------------------------------------------------------------------------
(* The states in which a part of the program is not running.               *)
AggIdle ==
    /\ frm = DT(0, 0) /\ to = DT(0, 0) /\ sel = <<>> /\ oi = 0 /\ pc = "idle"
    /\ end = DT(0, 0) /\ cur = DT(0, 0) /\ fetched = <<>> /\ all_orders = <<>>
    /\ nows = <<>> /\ calls = <<>> /\ returns = <<>>

SumIdle ==
    /\ orders = <<>> /\ si = 0 /\ spc = "idle"
    /\ phones = <<>> /\ invalid = <<>> /\ no_client = 0 /\ no_phone = 0 /\ zero = 0

PhoneIdle == ph = <<>> /\ matched = "unknown"

-----------------------------------------------------------------------------
(* main (lines 232-236) with fetch_orders (lines 83-100).                  *)
Init ==
    /\ frm \in TimeSamples /\ to \in TimeSamples
    /\ sel \in Selections
    /\ oi = 1 /\ pc = "main_loop"
    /\ end = to /\ cur = frm /\ fetched = <<>>
    /\ all_orders = <<>> /\ nows = <<>> /\ calls = <<>> /\ returns = <<>>
    /\ exc = "none" /\ sumry = NoSummary
    /\ SumIdle /\ PhoneIdle

\* main calls fetch_orders for sel[oi]; lines 84-90.  The clock does not run
\* backwards between two calls.
EnterFetchOrders ==
    /\ pc = "main_loop" /\ oi <= Len(sel)
    /\ \E now \in TimeSamples :
        /\ IF nows = <<>> THEN TRUE ELSE ~Lt(now, nows[Len(nows)])
        /\ nows' = Append(nows, now)
        /\ end' = Clamp(to, now)
    /\ cur' = frm
    /\ fetched' = <<>>
    /\ pc' = "fetch_loop"
    /\ UNCHANGED <<frm, to, sel, oi, all_orders, calls, returns, exc, sumry>>
    /\ UNCHANGED <<sumVars, phoneVars>>

\* while cur < end   (line 91)
LoopCond == Lt(cur, end)

\* One iteration of the while loop, lines 92-99.
FetchWindow ==
    /\ pc = "fetch_loop" /\ LoopCond
    /\ \E reply \in Replies :
        LET nxt == MinDT(PlusDay(cur), end)
            s == format_dt(cur)
            e == format_dt(nxt)
            r == get_deliveries(reply)
        IN /\ calls' = Append(calls, [oi |-> oi, org |-> sel[oi], s |-> s, e |-> e,
                                      exc |-> r.exc, value |-> r.value])
           /\ IF r.exc = "none"
                THEN /\ fetched' = fetched \o r.value
                     /\ cur' = nxt
                     /\ UNCHANGED <<pc, exc>>
              ELSE IF Caught(r.exc)
                THEN /\ cur' = nxt
                     /\ UNCHANGED <<fetched, pc, exc>>
              ELSE /\ pc' = "raised"
                   /\ exc' = r.exc
                   /\ UNCHANGED <<fetched, cur>>
    /\ UNCHANGED <<frm, to, sel, oi, end, all_orders, nows, returns, sumry>>
    /\ UNCHANGED <<sumVars, phoneVars>>

\* The loop ends: return all_orders (line 100); main appends it (line 234).
ReturnFetchOrders ==
    /\ pc = "fetch_loop" /\ ~LoopCond
    /\ returns' = Append(returns, fetched)
    /\ all_orders' = all_orders \o fetched
    /\ oi' = oi + 1
    /\ pc' = "main_loop"
    /\ UNCHANGED <<frm, to, sel, end, cur, fetched, nows, calls, exc, sumry>>
    /\ UNCHANGED <<sumVars, phoneVars>>

\* sumry = summarize(all_orders)   (line 236)
Summarize ==
    /\ pc = "main_loop" /\ oi > Len(sel)
    /\ LET r == summarize(all_orders)
       IN /\ sumry' = r.value
          /\ exc' = r.exc
          /\ pc' = IF r.exc = "none" THEN "done" ELSE "raised"
    /\ UNCHANGED <<frm, to, sel, oi, end, cur, fetched, all_orders, nows, calls, returns>>
    /\ UNCHANGED <<sumVars, phoneVars>>

Next == EnterFetchOrders \/ FetchWindow \/ ReturnFetchOrders \/ Summarize

Spec == Init /\ [][Next]_vars

-----------------------------------------------------------------------------
(* summarize, one loop iteration per step.                                 *)
InitSum ==
    /\ orders \in OrderSeqs \cup {ExampleOrders, ExampleOrdersWithCustomer}
    /\ si = 0 /\ spc = "loop"
    /\ phones = <<>> /\ invalid = <<>> /\ no_client = 0 /\ no_phone = 0 /\ zero = 0
    /\ exc = "none" /\ sumry = NoSummary
    /\ AggIdle /\ PhoneIdle

Locals ==
    [phones |-> phones, invalid |-> invalid, no_client |-> no_client,
     no_phone |-> no_phone, zero |-> zero, exc |-> "none"]

\* lines 108-121 for o = orders[si + 1]
Iterate ==
    /\ spc = "loop" /\ si < Len(orders)
    /\ LET st == LoopBody(Locals, orders[si + 1])
       IN /\ phones' = st.phones
          /\ invalid' = st.invalid
          /\ no_client' = st.no_client
          /\ no_phone' = st.no_phone
          /\ zero' = st.zero
          /\ exc' = st.exc
          /\ IF st.exc = "none"
               THEN si' = si + 1 /\ spc' = "loop"
               ELSE si' = si /\ spc' = "raised"
    /\ UNCHANGED <<orders, sumry, aggVars, phoneVars>>

\* lines 123-134
ReturnSummary ==
    /\ spc = "loop" /\ si = Len(orders)
    /\ sumry' = SummaryRecord(orders, Locals)
    /\ spc' = "returned"
    /\ UNCHANGED <<orders, si, phones, invalid, no_client, no_phone, zero, exc>>
    /\ UNCHANGED <<aggVars, phoneVars>>

NextSum == Iterate \/ ReturnSummary

SpecSum == InitSum /\ [][NextSum]_vars

-----------------------------------------------------------------------------
(* PHONE_PATTERN.match(ph)   (line 118)                                    *)
InitPhone ==
    /\ ph \in PhoneSamples /\ matched = "unknown"
    /\ exc = "none" /\ sumry = NoSummary
    /\ AggIdle /\ SumIdle

Match ==
    /\ matched = "unknown"
    /\ matched' = IF PHONE_PATTERN_match(ph) THEN "yes" ELSE "no"
    /\ UNCHANGED <<ph, exc, sumry, aggVars, sumVars>>

NextPhone == Match

SpecPhone == InitPhone /\ [][NextPhone]_vars

-----------------------------------------------------------------------------
(* Properties of main / fetch_orders, checked under Spec.                  *)

\* The get_deliveries invocations of the k-th fetch_orders call, in order.
CallsOf(k) == SelectSeq(calls, LAMBDA c : c.oi = k)

\* The range the k-th fetch_orders call has to cover: [frm, min(to, now)).
Limit(k) == MinDT(to, nows[k])
EmptyRange(k) == ~Lt(frm, Limit(k))

RECURSIVE ConcatValues(_)
\* Concatenation of the batches of the invocations that did not fail.
ConcatValues(cs) ==
    IF cs = <<>> THEN <<>>
    ELSE (IF Head(cs).exc = "none" THEN Head(cs).value ELSE <<>>) \o ConcatValues(Tail(cs))

RECURSIVE DayWindows(_, _, _)
\* The windows of [c, e) for the k-th call, as get_deliveries receives them.
DayWindows(k, c, e) ==
    IF ~Lt(c, e) THEN <<>>
    ELSE LET n == MinDT(PlusDay(c), e)
         IN <<[oi |-> k, s |-> format_dt(c), e |-> format_dt(n)]>> \o DayWindows(k, n, e)

RECURSIVE AllWindows(_)
\* The windows of the calls k..Len(nows), organization after organization.
AllWindows(k) ==
    IF k > Len(nows) THEN <<>>
    ELSE DayWindows(k, frm, Limit(k)) \o AllWindows(k + 1)

WindowsPassed == [i \in 1..Len(calls) |-> [oi |-> calls[i].oi, s |-> calls[i].s, e |-> calls[i].e]]

\* C1: for every fetch_orders call that returned and had start < min(end, now)
\* (--from and --to given to the millisecond, as their help text asks),
\* the (start, end) pairs passed to get_deliveries cover [start, min(end, now))
\* exactly: the first starts at start, each next one starts where the previous
\* one ended, every pair has end > start and spans at most 24 hours, and the
\* last one ends at min(end, now).
C1_WindowsCoverRangeExactly ==
    \A k \in 1..Len(returns) :
        (frm.us = 0 /\ to.us = 0 /\ ~EmptyRange(k)) =>
            LET w == CallsOf(k)
            IN /\ Len(w) >= 1
               /\ w[1].s = frm
               /\ \A i \in 1..(Len(w) - 1) : w[i + 1].s = w[i].e
               /\ \A i \in 1..Len(w) : Lt(w[i].s, w[i].e) /\ ~Lt(PlusDay(w[i].s), w[i].e)
               /\ w[Len(w)].e = Limit(k)

\* C2: a failed get_deliveries call of any kind (error status or transport
\* failure) is swallowed by fetch_orders: it never leaves the program as an
\* exception, and what a fetch_orders call returns is the in-order
\* concatenation of the batches of its windows that did not fail.
C2_EveryFetchFailureSwallowed ==
    /\ exc \notin {"HTTPError", "ConnectionError"}
    /\ \A k \in 1..Len(returns) : returns[k] = ConcatValues(CallsOf(k))

\* C3: when the run has ended, get_deliveries has been invoked exactly once for
\* every (selected organization, window) pair, the windows of one organization
\* in increasing time order before any window of the next organization, and
\* all_orders is the concatenation of the returned batches in that order.
C3_OncePerPairInOrder ==
    pc \in {"done", "raised"} =>
        /\ Len(nows) = Len(sel)
        /\ WindowsPassed = AllWindows(1)
        /\ \A i \in 1..Len(calls) : calls[i].org = sel[calls[i].oi]
        /\ all_orders = ConcatValues(calls)

\* C8: a fetch_orders call with start >= min(end, now) makes no get_deliveries
\* invocation, raises nothing and returns the empty list: while it runs the loop
\* condition is false, and main goes on with that organization having
\* contributed no order.
C8_EmptyRangeFetchesNothing ==
    \A k \in 1..Len(nows) :
        EmptyRange(k) =>
            /\ CallsOf(k) = <<>>
            /\ IF k <= Len(returns) THEN returns[k] = <<>>
               ELSE pc = "fetch_loop" /\ ~LoopCond /\ fetched = <<>> /\ exc = "none"
            /\ pc = "done" => sumry.total = Len(all_orders)

\* The run reached the summary after a first call on an empty range (the
\* range still lay in the future) and a second call that brought orders.
C8_Witness ==
    /\ pc = "done" /\ Len(returns) = 2
    /\ EmptyRange(1) /\ ~EmptyRange(2)
    /\ returns[1] = <<>> /\ returns[2] # <<>>
    /\ sumry.total = Len(returns[2])

-----------------------------------------------------------------------------
(* Properties of summarize, checked under SpecSum.                         *)

\* The summary of the example as the specification gives it.
ExampleFigures(r) ==
    /\ r.no_client = 1 /\ r.no_phone = 1 /\ r.total = 4 /\ r.unique = 1
    /\ r.dup = (StrV(PhoneGood) :> 2)
    /\ r.zero = 1 /\ r.inv_count = 0

\* C4 as claimed: summarize of the four example orders (null customer; empty
\* customer record and null phone; empty customer record, phone, sum 0; empty
\* customer record, phone, sum 10) returns no_client=1, no_phone=1, total=4,
\* unique=1, dup={phone: 2}, zero=1, inv_count=0.
C4_ExampleAsClaimed ==
    (spc = "returned" /\ orders = ExampleOrders) => ExampleFigures(sumry)

\* C4 as amended: an empty customer record counts as no client, so the four
\* example orders give no_client=4 and nothing else; the claimed figures are
\* those of the same orders with a customer record that has keys.
C4_ExampleEmptyCustomerIsNoClient ==
    /\ (spc = "returned" /\ orders = ExampleOrders) =>
            /\ sumry.no_client = 4 /\ sumry.no_phone = 0 /\ sumry.total = 4
            /\ sumry.unique = 0 /\ DOMAIN sumry.dup = {}
            /\ sumry.zero = 0 /\ sumry.inv_count = 0 /\ sumry.invalid = <<>>
    /\ (spc = "returned" /\ orders = ExampleOrdersWithCustomer) =>
            ExampleFigures(sumry) /\ sumry.invalid = <<>>

C4_Witness ==
    /\ spc = "returned" /\ orders = ExampleOrders /\ si = 4
    /\ sumry.no_client = 4 /\ sumry.total = 4

\* C5: after every completed loop iteration no_client + no_phone + the number
\* of collected phones equals the number of orders processed, and the record
\* summarize returns has no_client + no_phone + collected phones = total =
\* the length of the input.
C5_ClassesAddUpToTotal ==
    spc \in {"loop", "returned"} =>
        /\ no_client + no_phone + Len(phones) = si
        /\ spc = "returned" =>
            /\ sumry.total = Len(orders)
            /\ sumry.no_client + sumry.no_phone + Len(phones) = sumry.total

C5_Witness ==
    /\ spc = "returned" /\ sumry.total = 3
    /\ sumry.no_client = 1 /\ sumry.no_phone = 1 /\ Len(phones) = 1

\* The order o reaches the phone analysis (it has a customer and a phone).
Considered(o) ==
    /\ o.t = "dict" /\ Unwrap(o).t = "dict"
    /\ Truthy(Get(Unwrap(o).d, "customer"))
    /\ Truthy(Get(Unwrap(o).d, "phone"))
PhoneOf(o) == Get(Unwrap(o).d, "phone")
FailedAt ==
    { i \in 1..Len(orders) : Considered(orders[i]) /\ ~PHONE_PATTERN_match(PhoneOf(orders[i]).s) }

\* C9: the returned `invalid` list is strictly ascending and holds exactly the
\* distinct phone strings that failed validation; inv_count is the number of
\* orders whose phone failed, so inv_count >= len(invalid), with equality only
\* when no invalid phone repeats.
C9_InvalidSortedDistinct ==
    spc = "returned" =>
        /\ \A i \in 1..(Len(sumry.invalid) - 1) :
                StrLess(sumry.invalid[i].s, sumry.invalid[i + 1].s)
        /\ Range(sumry.invalid) = { PhoneOf(orders[i]) : i \in FailedAt }
        /\ sumry.inv_count = Cardinality(FailedAt)
        /\ sumry.inv_count >= Len(sumry.invalid)
        /\ (sumry.inv_count = Len(sumry.invalid)) <=>
                (\A i, j \in FailedAt : PhoneOf(orders[i]) = PhoneOf(orders[j]) => i = j)

\* An invalid phone occurs twice and a second, smaller one after it.
C9_Witness ==
    /\ spc = "returned" /\ sumry.inv_count = 3
    /\ sumry.invalid = <<StrV(PhoneRepeated), StrV(PhoneNoPlus)>>
    /\ invalid[1] = StrV(PhoneNoPlus)

\* The class LoopBody gives a dict with the fields d.
ClassOf(d) ==
    IF ~Truthy(Get(d, "customer")) THEN "no_client"
    ELSE IF ~Truthy(Get(d, "phone")) THEN "no_phone"
    ELSE "phone"

\* A completed iteration classified the order by the fields d.
ClassifiedBy(d) ==
    LET c == ClassOf(d)
    IN /\ (c = "no_client") <=> (no_client' = no_client + 1)
       /\ (c = "no_phone") <=> (no_phone' = no_phone + 1)
       /\ (c = "phone") <=> (phones' = Append(phones, Get(d, "phone")))

\* C10 as claimed: every completed iteration classifies the order by the
\* nested `order` record whenever the key `order` is present (also when it is
\* an empty record), and by the top-level fields only when it is not present.
C10_NestedWheneverPresent ==
    [][ (spc = "loop" /\ si' = si + 1 /\ orders[si + 1].order.t \in {"absent", "dict"}) =>
            LET o == orders[si + 1]
            IN ClassifiedBy(IF o.order.t = "dict" THEN o.order.d ELSE o.d) ]_vars

\* C10 as amended: the nested `order` record is used when it is present and
\* not empty; the top-level fields are used when `order` is missing, null or
\* an empty record.
C10_NestedWhenNotEmpty ==
    [][ (spc = "loop" /\ si' = si + 1) =>
            LET o == orders[si + 1]
            IN ClassifiedBy(IF o.order.t = "dict" /\ o.order.n > 0 THEN o.order.d ELSE o.d) ]_vars

\* An order with an empty `order` record was classified by its own phone, and
\* one with a nested record by the nested phone.
C10_Witness ==
    /\ si = 2
    /\ orders[1] = Order(Nested(NoFields), Fields(Customer, StrV(PhoneGood), IntV(0)))
    /\ orders[2] = Order(Nested(Fields(Customer, StrV(PhoneRepeated), IntV(10))), NoFields)
    /\ phones = <<StrV(PhoneGood), StrV(PhoneRepeated)>>

\* C7: summarize raises for no sequence of order records (dicts), whatever the
\* types of their order, customer, phone and sum: it always returns a record.
C7_SummarizeNeverRaises ==
    (\A i \in 1..Len(orders) : orders[i].t = "dict") => (spc # "raised" /\ exc = "none")

-----------------------------------------------------------------------------
(* Property of PHONE_PATTERN, checked under SpecPhone.                     *)

\* The whole string is +380, an operator code and exactly 7 digits that are
\* not seven copies of one digit, with nothing before or after.
ExactlyANumber(str) ==
    /\ Len(str) = 13
    /\ SubSeq(str, 1, 4) = Plus380
    /\ SubSeq(str, 5, 6) \in OperatorCodes
    /\ \A i \in 7..13 : IsDigit(str[i])
    /\ \E i \in 8..13 : str[i] # str[7]

\* C6: a phone string (of ASCII characters) is classified valid if and only if
\* the whole string is such a number (no trailing newline or whitespace).
C6_ValidIffExactlyANumber ==
    (matched # "unknown" /\ \A i \in 1..Len(ph) : ph[i] # "U+0663") =>
        ((matched = "yes") <=> ExactlyANumber(ph))

====
